---- MODULE Spec2Model ----
(***************************************************************************)
(* A model of src/app.py: the upload handler analyze_uploaded_files, the   *)
(* file loader load_and_process_files, the spot engine analyze_spot_trades *)
(* and the contract engine analyze_contract_trades with its aggregation    *)
(* and classification.                                                     *)
(*                                                                         *)
(* Quantities are counted in units of 1e-9, so that the exhaustion         *)
(* threshold Decimal('1e-9') of the code is the integer Epsilon.  Times    *)
(* are seconds.  A Decimal is a fraction <<numerator, denominator>>.  The   *)
(* inputs are whole numbers, so sums, differences and products are exact   *)
(* within the 28 digits of the Decimal context (app.py line 9); a quotient *)
(* is rounded half-even, as that context rounds it, to Digits decimal      *)
(* places.                                                                 *)
(***************************************************************************)
EXTENDS Integers, Sequences, FiniteSets, TLC

(***************************************************************************)
(* Bounds of the model.                                                    *)
(***************************************************************************)
\* rows of the one file of a single-file batch
MaxRows == 4
\* largest quantity of an OPEN or CLOSE row of the one-contract batches
MaxQty == 3
\* largest |Amount| of a USDT row of a spot batch
MaxAmount == 2
\* seconds past the hour at which a record of a two-contract batch may fall
MaxSec == 1
\* files of a multi-file batch
MaxFiles == 2
\* largest threshold_hours of a request
MaxThreshold == 1
\* decimal places a quotient is rounded to (the code keeps 28 digits)
Digits == 3
\* iterations of the matching loop of one CLOSE row that the model follows
MaxIter == 5

(***************************************************************************)
(* Program constants.                                                      *)
(***************************************************************************)
\* Decimal('1e-9') in units of 1e-9 (app.py lines 141 and 274)
Epsilon == 1
\* threshold_hours * 3600 (app.py line 190)
SecondsPerHour == 3600

(***************************************************************************)
(* Decimal numbers.                                                        *)
(***************************************************************************)
RECURSIVE GCD(_, _)
GCD(a, b) == IF b = 0 THEN a ELSE GCD(b, a % b)

Abs(x) == IF x < 0 THEN -x ELSE x

Min(a, b) == IF a <= b THEN a ELSE b

\* the fraction n/d (d # 0) in lowest terms with a positive denominator
Frac(n, d) ==
    LET g == GCD(Abs(n), Abs(d))
        s == IF d < 0 THEN -1 ELSE 1
    IN  <<(s * n) \div g, (s * d) \div g>>

Zero == <<0, 1>>

FromInt(n) == <<n, 1>>

RAdd(a, b) ==
    LET g == GCD(a[2], b[2])
    IN  Frac(a[1] * (b[2] \div g) + b[1] * (a[2] \div g), a[2] * (b[2] \div g))

RSub(a, b) == RAdd(a, <<-b[1], b[2]>>)

RECURSIVE Pow10(_)
Pow10(k) == IF k = 0 THEN 1 ELSE 10 * Pow10(k - 1)

\* n / d (d > 0) rounded to the nearest integer, a tie to the even one
RoundDiv(n, d) ==
    LET q == n \div d
        r == n % d
    IN  IF 2 * r > d \/ (2 * r = d /\ q % 2 = 1) THEN q + 1 ELSE q

\* Decimal division n / d (d # 0) under getcontext().prec, line 9
Quotient(n, d) ==
    LET sgn == IF d < 0 THEN -1 ELSE 1
    IN  Frac(RoundDiv(sgn * n * Pow10(Digits), sgn * d), Pow10(Digits))

RMul(a, b) == Frac(a[1] * b[1], a[2] * b[2])

\* a > b for fractions in lowest terms
RGreater(a, b) == a[1] * b[2] > b[1] * a[2]

RECURSIVE RSum(_)
RSum(s) == IF s = <<>> THEN Zero ELSE RAdd(s[1], RSum(Tail(s)))

RECURSIVE ISum(_)
ISum(s) == IF s = <<>> THEN 0 ELSE s[1] + ISum(Tail(s))

(***************************************************************************)
(* Sequences and sets.                                                     *)
(***************************************************************************)
RECURSIVE SetToSeq(_)
SetToSeq(S) ==
    IF S = {} THEN <<>>
    ELSE LET x == CHOOSE y \in S : TRUE IN <<x>> \o SetToSeq(S \ {x})

\* the ascending sequence of a set of integers
RECURSIVE SortedSeq(_)
SortedSeq(S) ==
    IF S = {} THEN <<>>
    ELSE LET x == CHOOSE y \in S : \A z \in S : y <= z
         IN  <<x>> \o SortedSeq(S \ {x})

\* the ascending sequence of a set of strings drawn from the sequence order
SeqFilter(order, S) == SelectSeq(order, LAMBDA x : x \in S)

Range(s) == {s[i] : i \in 1..Len(s)}

\* the non-decreasing index sequences of length n over 1..d
RECURSIVE Mono(_, _)
Mono(n, d) ==
    IF n = 0 THEN {<<>>}
    ELSE UNION {{Append(s, k) : k \in (IF s = <<>> THEN 1 ELSE s[Len(s)])..d} :
                    s \in Mono(n - 1, d)}

\* every bag of at most n members of the sequence dom, each as one sequence
BagsOf(dom, n) ==
    UNION {{[i \in 1..k |-> dom[s[i]]] : s \in Mono(k, Len(dom))} : k \in 0..n}

(***************************************************************************)
(* The rows of the uploaded files.  One record shape serves both kinds of  *)
(* file: a contract row has Time(UTC), Contract, Type, Action, Quantity,   *)
(* Fee Paid, Cash Flow and Change; a spot row has Time(UTC), Coin, Type    *)
(* and Amount (held in sym and qty).                                       *)
(***************************************************************************)
Row(t, s, ty, a, q, f, c, ch) ==
    [time |-> t, sym |-> s, type |-> ty, action |-> a, qty |-> q,
     fee |-> f, cash |-> c, change |-> ch]

FeeSet == {-1}

CashSet == {6}

ChangeSet == {-6}

\* the times of a one-contract batch, and of a two-contract batch
DeepTimes == {0, SecondsPerHour}

WideTimes == {0} \cup {SecondsPerHour + s : s \in 0..MaxSec}

QtySet == (-1)..MaxQty

TradeRows(times, syms, qtys) ==
    {Row(t, s, "TRADE", a, q, f, IF a = "CLOSE" THEN c ELSE 0, 0) :
        t \in times, s \in syms, a \in {"OPEN", "CLOSE"}, q \in qtys,
        f \in FeeSet, c \in CashSet}

SettlementRows(times, syms) ==
    {Row(t, s, "SETTLEMENT", "NONE", 0, 0, 0, ch) :
        t \in times, s \in syms, ch \in ChangeSet}

\* rows the engine ignores: a transfer, and a trade with no recognised action
OtherRows(times, syms) ==
    {Row(t, s, ty, "NONE", 1, 0, 0, 0) :
        t \in times, s \in syms, ty \in {"TRANSFER", "TRADE"}}

DeepRows ==
    SetToSeq(TradeRows(DeepTimes, {"A"}, QtySet) \cup SettlementRows(DeepTimes, {"A"}))

\* one contract, every quantity above zero
MidRows ==
    SetToSeq(TradeRows(DeepTimes, {"A"}, 1..MaxQty) \cup SettlementRows(DeepTimes, {"A"}))

\* one contract at one time, quantities of either sign: the rows come in any
\* order
SignedRows == SetToSeq(TradeRows({0}, {"A"}, QtySet))

\* one contract over three times, with a settlement at any of them
FundTimes == {0, SecondsPerHour, 2 * SecondsPerHour}

FundRows ==
    SetToSeq(TradeRows(FundTimes, {"A"}, {1, 2}) \cup SettlementRows(FundTimes, {"A"}))

WideRows ==
    SetToSeq(TradeRows(WideTimes, {"A", "B"}, {1}) \cup OtherRows({0}, {"B"}))

\* a spot trade moves one unit of coin X for up to MaxAmount USDT
AmountSet == ((-MaxAmount)..MaxAmount) \ {0}

SpotRows ==
    SetToSeq({Row(t, "X", "trade", "NONE", q, 0, 0, 0) : t \in DeepTimes, q \in {-1, 1}}
             \cup {Row(t, "USDT", "trade", "NONE", q, 0, 0, 0) :
                       t \in DeepTimes, q \in AmountSet}
             \cup {Row(0, "X", "tradingFee", "NONE", -1, 0, 0, 0)})

(***************************************************************************)
(* An uploaded file: the column signature read_csv finds, how reading it   *)
(* ends, and its rows.                                                     *)
(***************************************************************************)
File(sig, parse, rows) == [sig |-> sig, parse |-> parse, rows |-> rows]

\* the rows of the files of a multi-file batch; a legacy row holds the
\* Direction text in action and the raw Type in type
SampleRows(sig) ==
    IF sig = "spot" THEN {<<Row(0, "X", "trade", "NONE", 1, 0, 0, 0)>>}
    ELSE IF sig = "legacy"
    THEN {<<Row(0, "A", "Trade", "Open Long", 1, -1, 0, 0)>>,
          <<Row(0, "A", "Trade", "Open Long", 1, -1, 0, 0),
            Row(SecondsPerHour, "A", "Trade", "Close Long", 1, -1, 6, 0)>>}
    ELSE IF sig = "contract"
    THEN {<<Row(0, "A", "TRADE", "OPEN", 1, -1, 0, 0)>>,
          <<Row(0, "A", "TRADE", "OPEN", 1, -1, 0, 0),
            Row(SecondsPerHour, "A", "TRADE", "CLOSE", 1, -1, 6, 0)>>}
    ELSE {<<Row(0, "A", "OTHER", "NONE", 1, 0, 0, 0)>>}

Signatures == {"spot", "contract", "legacy", "none"}

\* reading a file raises (read_error), the legacy transformation raises
\* (transform_error, legacy files only), or neither
BatchFiles ==
    {File(sig, parse, <<>>) : sig \in Signatures, parse \in {"ok", "read_error"}} \cup
    UNION {{File(sig, "ok", rows) : rows \in SampleRows(sig)} : sig \in Signatures} \cup
    {File("legacy", "transform_error", rows) : rows \in SampleRows("legacy")}

MultiBatches(n) ==
    UNION {[1..k -> BatchFiles] : k \in 1..n}

\* the single-file batches of at most n rows (operators of n, so that only
\* the batches a specification starts from are built)
DeepBatches(n) == {<<File("contract", "ok", rows)>> : rows \in BagsOf(DeepRows, n)}

MidBatches(n) == {<<File("contract", "ok", rows)>> : rows \in BagsOf(MidRows, n)}

SignedBatches(n) == {<<File("contract", "ok", rows)>> : rows \in BagsOf(SignedRows, n)}

FundBatches(n) == {<<File("contract", "ok", rows)>> : rows \in BagsOf(FundRows, n)}

WideBatches(n) == {<<File("contract", "ok", rows)>> : rows \in BagsOf(WideRows, n)}

SpotBatches(n) == {<<File("spot", "ok", rows)>> : rows \in BagsOf(SpotRows, n)}

(***************************************************************************)
(* State.                                                                  *)
(***************************************************************************)
VARIABLES
    files,              \* the uploaded CSV files of the request
    pc,                 \* where the request is
    df,                 \* the concatenated rows
    file_types,         \* the classification tags of the batch
    threshold_seconds,  \* threshold_hours * 3600, -1 before it is read
    response,           \* what the handler returns
    groups,             \* contracts (coins) still to be processed
    cur,                \* the contract being processed
    todo,               \* indices of df not yet iterated over
    open_positions,     \* the FIFO queue of the contract being processed
    inventory,          \* spot: the FIFO queue of every coin
    realized_pnl,       \* spot: the Fills
    classified_trades,  \* contract: the Fills
    matches,            \* history: one entry for every match
    closes,             \* history: one entry for every close or sell record
    grouped_trades      \* the AggregatedTrades

vars ==
    <<files, pc, df, file_types, threshold_seconds, response, groups, cur, todo,
      open_positions, inventory, realized_pnl, classified_trades, matches, closes, grouped_trades>>

engineVars ==
    <<groups, cur, todo, open_positions, inventory, realized_pnl, classified_trades, matches,
      closes, grouped_trades>>

NoResponse == [status |-> 0, error |-> "", trades |-> <<>>, kpi |-> <<>>, chart |-> <<>>]

Failure(status, error) ==
    [status |-> status, error |-> error, trades |-> <<>>, kpi |-> <<>>, chart |-> <<>>]

Coins == {"X", "USDT"}

InitWith(batches) ==
    /\ files \in batches
    /\ pc = "request"
    /\ df = <<>>
    /\ file_types = {}
    /\ threshold_seconds = -1
    /\ response = NoResponse
    /\ groups = <<>>
    /\ cur = ""
    /\ todo = {}
    /\ open_positions = <<>>
    /\ inventory = [c \in Coins |-> <<>>]
    /\ realized_pnl = <<>>
    /\ classified_trades = <<>>
    /\ matches = <<>>
    /\ closes = <<>>
    /\ grouped_trades = <<>>

Init ==
    InitWith(DeepBatches(MaxRows) \cup MidBatches(MaxRows) \cup FundBatches(MaxRows)
             \cup WideBatches(MaxRows)
             \cup SpotBatches(MaxRows) \cup MultiBatches(MaxFiles))

(***************************************************************************)
(* load_and_process_files                                                  *)
(***************************************************************************)
\* the Action column derived from the Direction text: 'Open' in x, else 'Close' in x
DirectionAction(d) ==
    IF d \in {"Open Long", "Open Short"} THEN "OPEN"
    ELSE IF d \in {"Close Long", "Close Short"} THEN "CLOSE"
    ELSE "NONE"

\* str.upper() and the replacement of FUNDING by SETTLEMENT
LegacyType(ty) ==
    IF ty \in {"Funding", "FUNDING"} THEN "SETTLEMENT"
    ELSE IF ty \in {"Trade", "TRADE"} THEN "TRADE"
    ELSE IF ty \in {"Transfer", "TRANSFER"} THEN "TRANSFER"
    ELSE ty

transform_legacy_to_uta(rows) ==
    [i \in 1..Len(rows) |->
        [rows[i] EXCEPT !.action = DirectionAction(rows[i].action),
                        !.type = LegacyType(rows[i].type)]]

\* the tag a file adds to file_types: it is added before the legacy
\* transformation runs, so a file whose transformation raises is tagged too
FileTag(f) ==
    IF f.parse = "read_error" THEN {}
    ELSE IF f.sig = "spot" THEN {"spot"}
    ELSE IF f.sig \in {"contract", "legacy"} THEN {"contract"}
    ELSE {}

\* the frames a file adds to df_list
FileFrame(f) ==
    IF f.parse # "ok" \/ f.sig = "none" THEN <<>>
    ELSE IF f.sig = "legacy" THEN <<transform_legacy_to_uta(f.rows)>>
    ELSE <<f.rows>>

RECURSIVE Concat(_)
Concat(frames) == IF frames = <<>> THEN <<>> ELSE frames[1] \o Concat(Tail(frames))

\* loaded is FALSE where the code returns (None, [])
load_and_process_files(fs) ==
    LET df_list == Concat([i \in 1..Len(fs) |-> FileFrame(fs[i])])
        types   == UNION {FileTag(fs[i]) : i \in 1..Len(fs)}
    IN  IF df_list = <<>>
        THEN [loaded |-> FALSE, df |-> <<>>, types |-> {}]
        ELSE [loaded |-> TRUE, df |-> Concat(df_list), types |-> types]

(***************************************************************************)
(* analyze_uploaded_files, lines 377 to 393: load, reject, dispatch.       *)
(***************************************************************************)
\* a batch rejected only from three tags on
IsMixedLate(types) == Cardinality(types) > 2

\* len(file_types) > 1
IsMixed(types) == Cardinality(types) > 1

\* analysis_type = file_types[0]: file_types is list(set(...)), whose first
\* member is any member
AnalyzeUploadedFiles ==
    /\ pc = "request"
    /\ LET l == load_and_process_files(files)
       IN  /\ df' = l.df
           /\ file_types' = l.types
           /\ IF ~l.loaded \/ l.df = <<>>
              THEN /\ response' = Failure(400, "No valid data found in files.")
                   /\ pc' = "done"
              ELSE IF IsMixed(l.types)
              THEN /\ response' = Failure(400, "mixed_files")
                   /\ pc' = "done"
              ELSE IF l.types = {}
              THEN /\ response' = Failure(400, "Could not determine analysis type.")
                   /\ pc' = "done"
              ELSE \E analysis_type \in l.types :
                      /\ response' = response
                      /\ pc' = analysis_type
    /\ UNCHANGED <<files, threshold_seconds, engineVars>>

(***************************************************************************)
(* analyze_contract_trades: preparation, lines 190 to 218.                 *)
(***************************************************************************)
\* the order in which groupby yields its keys
SymOrder == <<"A", "B", "USDT", "X">>

Indices == 1..Len(df)

\* funding_df: the SETTLEMENT rows, Funding taken from Change
funding_df == {i \in Indices : df[i].type = "SETTLEMENT"}

\* trade_actions_df: TRADE rows whose Action is OPEN or CLOSE
trade_actions_df ==
    {i \in Indices : df[i].action \in {"OPEN", "CLOSE"} /\ df[i].type = "TRADE"}

\* the rows of one contract's group
Group(contract) == {i \in trade_actions_df : df[i].sym = contract}

ContractPrepare ==
    /\ pc = "contract"
    /\ IF df = <<>>
       THEN /\ response' = Failure(500, "No valid contract trade data found in uploaded files.")
            /\ pc' = "done"
            /\ groups' = groups
       ELSE /\ response' = response
            /\ pc' = "groups"
            /\ groups' = SeqFilter(SymOrder, {df[i].sym : i \in trade_actions_df})
    /\ UNCHANGED <<files, df, file_types, threshold_seconds, cur, todo, open_positions,
                   inventory, realized_pnl, classified_trades, matches, closes,
                   grouped_trades>>

(***************************************************************************)
(* The matching loop, lines 220 to 275.                                    *)
(***************************************************************************)
\* for contract, group in trade_actions_df.groupby('Contract'), lines 220 to 222
StartGroup ==
    /\ pc = "groups"
    /\ groups # <<>>
    /\ cur' = Head(groups)
    /\ todo' = Group(Head(groups))
    /\ open_positions' = <<>>
    /\ pc' = "rows"
    /\ UNCHANGED <<files, df, file_types, threshold_seconds, response, groups, inventory,
                   realized_pnl, classified_trades, matches, closes, grouped_trades>>

\* the rows iterated over in file order, with no sort by time
NextRowsUnsorted(t) == t

\* sort_values(by='Time(UTC)') is not a stable sort: of the rows still to
\* come, any one with the earliest time may be the next one iterated over
NextRows(t) == {i \in t : \A j \in t : df[i].time <= df[j].time}

\* min(qty_to_close, open_pos['Quantity']), line 232
MatchedQty(qty_to_close, lot_qty) == Min(qty_to_close, lot_qty)

\* a lot dropped only once it is below the threshold
ExhaustedStrict(q) == q < Epsilon

\* a lot never dropped
ExhaustedNever(q) == FALSE

\* open_pos['Quantity'] <= Decimal('1e-9'), line 274
Exhausted(q) == q <= Epsilon

RECURSIVE SumOver(_, _)
SumOver(S, field) ==
    IF S = {} THEN 0
    ELSE LET i == CHOOSE j \in S : TRUE
         IN  (IF field = "qty" THEN df[i].qty ELSE df[i].change) + SumOver(S \ {i}, field)

\* the settlement at the open time of the lot counted as well
FundingSumInclusive(contract, open_time, close_time) ==
    SumOver({i \in funding_df : /\ df[i].sym = contract
                                /\ df[i].time >= open_time
                                /\ df[i].time <= close_time}, "change")

\* relevant_funding_df['Funding'].sum(), lines 241 to 246
FundingSum(contract, open_time, close_time) ==
    SumOver({i \in funding_df : /\ df[i].sym = contract
                                /\ df[i].time > open_time
                                /\ df[i].time <= close_time}, "change")

\* total_open_qty_in_period, lines 248 to 252
TotalOpenQtyInPeriod(contract, open_time, close_time) ==
    SumOver({i \in Group(contract) : /\ df[i].action = "OPEN"
                                     /\ df[i].time >= open_time
                                     /\ df[i].time <= close_time}, "qty")

\* funding_part, line 254
FundingPart(funding_sum, matched_qty, total) ==
    IF total > 0 THEN RMul(FromInt(funding_sum), Quotient(matched_qty, total)) ELSE Zero

\* the whole fee of the lot charged to every match
OpenFeePartWhole(fee, matched_qty, lot_qty) == FromInt(fee)

\* open_fee_part, lines 238 and 239
OpenFeePart(fee, matched_qty, lot_qty) ==
    RMul(FromInt(fee), IF lot_qty > 0 THEN Quotient(matched_qty, lot_qty) ELSE Zero)

\* every match given the whole of the close row
PnlRatioWhole(matched_qty, row_qty) == IF row_qty > 0 THEN FromInt(1) ELSE Zero

\* pnl_ratio, line 234
PnlRatio(matched_qty, row_qty) ==
    IF row_qty > 0 THEN Quotient(matched_qty, row_qty) ELSE Zero

\* the matched lot leaves the queue whatever is left of it
AfterMatchPop(queue, matched_qty) == Tail(queue)

\* the queue after the matched lot is decremented, lines 271 to 275
AfterMatch(queue, matched_qty) ==
    LET left == queue[1].qty - matched_qty
    IN  IF Exhausted(left) THEN Tail(queue)
        ELSE <<[queue[1] EXCEPT !.qty = left]>> \o Tail(queue)

\* the while loop of one CLOSE row i, lines 228 to 275; the model follows
\* at most MaxIter iterations and reports in cut a loop it left running
RECURSIVE CloseLoop(_, _, _, _, _)
CloseLoop(i, qty_to_close, queue, fills, log) ==
    IF qty_to_close > 0 /\ queue # <<>> /\ Len(log) < MaxIter
    THEN LET row == df[i]
             open_pos == queue[1]
             opened == df[open_pos.idx]
             matched_qty == MatchedQty(qty_to_close, open_pos.qty)
             pnl_ratio == PnlRatio(matched_qty, row.qty)
             close_pnl_part == RMul(FromInt(row.cash), pnl_ratio)
             close_fee_part == RMul(FromInt(row.fee), pnl_ratio)
             open_fee_part == OpenFeePart(opened.fee, matched_qty, open_pos.qty)
             funding_sum == FundingSum(row.sym, opened.time, row.time)
             total == TotalOpenQtyInPeriod(row.sym, opened.time, row.time)
             funding_part == FundingPart(funding_sum, matched_qty, total)
             net_pnl == RAdd(RAdd(close_pnl_part, open_fee_part),
                             RAdd(close_fee_part, funding_part))
             fill == [contract |-> row.sym,
                      pnl |-> net_pnl,
                      holding_period_seconds |-> row.time - opened.time,
                      open_time |-> opened.time,
                      close_time |-> row.time,
                      funding_fee |-> funding_part,
                      trade_fees |-> RAdd(open_fee_part, close_fee_part),
                      quantity |-> matched_qty]
             m == [close |-> i,
                   lot |-> open_pos.idx,
                   lot_qty |-> open_pos.qty,
                   qty_to_close |-> qty_to_close,
                   queue |-> [k \in 1..Len(queue) |-> queue[k].idx],
                   matched_qty |-> matched_qty,
                   close_pnl_part |-> close_pnl_part,
                   close_fee_part |-> close_fee_part,
                   open_fee_part |-> open_fee_part,
                   funding_part |-> funding_part]
         IN  CloseLoop(i, qty_to_close - matched_qty, AfterMatch(queue, matched_qty),
                       Append(fills, fill), Append(log, m))
    ELSE [queue |-> queue, fills |-> fills, log |-> log, rem |-> qty_to_close,
          cut |-> qty_to_close > 0 /\ queue # <<>>]

\* one iteration of for _, row in group.iterrows(), lines 224 to 275
ProcessRow ==
    /\ pc = "rows"
    /\ \E i \in NextRows(todo) :
          /\ todo' = todo \ {i}
          /\ IF df[i].action = "OPEN"
             THEN /\ open_positions' = Append(open_positions, [idx |-> i, qty |-> df[i].qty])
                  /\ UNCHANGED <<classified_trades, matches, closes>>
             ELSE LET r == CloseLoop(i, df[i].qty, open_positions, <<>>, <<>>)
                  IN  /\ open_positions' = r.queue
                      /\ classified_trades' = classified_trades \o r.fills
                      /\ matches' = matches \o r.log
                      /\ closes' = Append(closes, [row |-> i, sym |-> df[i].sym,
                                                   qty |-> df[i].qty,
                                                   matched |-> ISum([k \in 1..Len(r.log) |->
                                                                       r.log[k].matched_qty]),
                                                   fills |-> Len(r.fills), quoted |-> TRUE,
                                                   emptied |-> r.queue = <<>>,
                                                   queued |-> Len(open_positions),
                                                   cut |-> r.cut])
          /\ IF todo' = {}
             THEN pc' = "groups" /\ groups' = Tail(groups)
             ELSE pc' = pc /\ groups' = groups
    /\ UNCHANGED <<files, df, file_types, threshold_seconds, response, cur, inventory,
                   realized_pnl, grouped_trades>>

(***************************************************************************)
(* Aggregation, lines 277 to 305.                                          *)
(***************************************************************************)
\* the Fills grouped by their open time
GroupKeyOpenTime(f) == f.open_time

\* trades_df.groupby('close_time'), lines 299 and 300
GroupKey(f) == f.close_time

\* the Fills of one group, in the order of classified_trades
Members(fills, key) == {i \in 1..Len(fills) : GroupKey(fills[i]) = key}

MinOf(S) == CHOOSE x \in S : \A y \in S : x <= y

\* weighted_avg, lines 285 to 288: 0 if the weights sum to 0
WeightedAvg(fills, members) ==
    LET ms == SortedSeq(members)
        w  == ISum([k \in 1..Len(ms) |-> fills[ms[k]].quantity])
        vw == ISum([k \in 1..Len(ms) |->
                       fills[ms[k]].holding_period_seconds * fills[ms[k]].quantity])
    IN  IF w = 0 THEN Zero ELSE Quotient(vw, w)

\* agg_funcs, lines 290 to 297, and the weighted holding period
AggregateGroup(fills, members) ==
    LET ms == SortedSeq(members)
    IN  [close_time |-> fills[ms[1]].close_time,
         pnl |-> RSum([k \in 1..Len(ms) |-> fills[ms[k]].pnl]),
         trade_fees |-> RSum([k \in 1..Len(ms) |-> fills[ms[k]].trade_fees]),
         funding_fee |-> RSum([k \in 1..Len(ms) |-> fills[ms[k]].funding_fee]),
         quantity |-> ISum([k \in 1..Len(ms) |-> fills[ms[k]].quantity]),
         open_time |-> MinOf({fills[i].open_time : i \in members}),
         contract |-> fills[ms[1]].contract,
         holding_period_seconds |-> WeightedAvg(fills, members),
         members |-> members]

\* the groups in ascending close time, lines 299 to 305
RECURSIVE SortGroups(_, _)
SortGroups(fills, gs) ==
    IF gs = {} THEN <<>>
    ELSE LET g == CHOOSE x \in gs : \A y \in gs :
                      \/ fills[MinOf(x)].close_time < fills[MinOf(y)].close_time
                      \/ /\ fills[MinOf(x)].close_time = fills[MinOf(y)].close_time
                         /\ MinOf(x) <= MinOf(y)
         IN  <<AggregateGroup(fills, g)>> \o SortGroups(fills, gs \ {g})

AggregateTrades(fills) ==
    SortGroups(fills, {Members(fills, GroupKey(fills[i])) : i \in 1..Len(fills)})

\* the aggregation with no check for an empty list of Fills
AggregateUnchecked ==
    /\ pc = "groups"
    /\ groups = <<>>
    /\ response' = response
    /\ pc' = "classify"
    /\ grouped_trades' = AggregateTrades(classified_trades)
    /\ UNCHANGED <<files, df, file_types, threshold_seconds, groups, cur, todo,
                   open_positions, inventory, realized_pnl, classified_trades, matches, closes>>

Aggregate ==
    /\ pc = "groups"
    /\ groups = <<>>
    /\ IF classified_trades = <<>>
       THEN /\ response' = Failure(500, "No trades could be classified from the uploaded files.")
            /\ pc' = "done"
            /\ grouped_trades' = grouped_trades
       ELSE /\ response' = response
            /\ pc' = "classify"
            /\ grouped_trades' = AggregateTrades(classified_trades)
    /\ UNCHANGED <<files, df, file_types, threshold_seconds, groups, cur, todo,
                   open_positions, inventory, realized_pnl, classified_trades, matches, closes>>

(***************************************************************************)
(* Classification, running totals, KPI and chart, lines 307 to 354.        *)
(***************************************************************************)
\* SWING from the threshold on
TradeTypeInclusive(holding, seconds) ==
    IF RGreater(holding, FromInt(seconds)) \/ holding = FromInt(seconds)
    THEN "SWING" ELSE "DAY_TRADE"

\* line 315; float(holding) > threshold_seconds keeps the order of the
\* numbers of the model, which have at most Digits decimal places
TradeType(holding, seconds) ==
    IF RGreater(holding, FromInt(seconds)) THEN "SWING" ELSE "DAY_TRADE"

\* strftime('%Y-%m-%d %H:%M'): the minute of a time
MinuteLabel(t) == t \div 60

\* the value of the k-th trade alone, with no running total
PrefixLast(trades, k, field) ==
    IF field = "pnl" THEN trades[k].pnl ELSE trades[k].trade_fees

RECURSIVE Prefix(_, _, _)
\* the sum of field over the first k trades
Prefix(trades, k, field) ==
    IF k = 0 THEN Zero
    ELSE RAdd(Prefix(trades, k - 1, field),
              IF field = "pnl" THEN trades[k].pnl ELSE trades[k].trade_fees)

Classified(trades, seconds) ==
    [k \in 1..Len(trades) |->
        [id |-> k,
         contract |-> trades[k].contract,
         type |-> TradeType(trades[k].holding_period_seconds, seconds),
         pnl |-> trades[k].pnl,
         holding_period_seconds |-> trades[k].holding_period_seconds,
         open_time |-> trades[k].open_time,
         close_time |-> trades[k].close_time,
         funding_fee |-> trades[k].funding_fee,
         trade_fees |-> trades[k].trade_fees,
         cumulative_pnl |-> Prefix(trades, k, "pnl"),
         cumulative_fees |-> Prefix(trades, k, "trade_fees")]]

\* the pnl of every trade, whatever its type
PnlOfAnyType(trades, ty) == RSum([k \in 1..Len(trades) |-> trades[k].pnl])

\* lines 318 and 319
PnlOfType(trades, ty) ==
    RSum([k \in 1..Len(trades) |-> IF trades[k].type = ty THEN trades[k].pnl ELSE Zero])

ContractResult(trades) ==
    [status |-> 200,
     error |-> "",
     trades |-> trades,
     kpi |-> [totalPnl |-> RSum([k \in 1..Len(trades) |-> trades[k].pnl]),
              tradeCount |-> Len(trades),
              dayTradePnl |-> PnlOfType(trades, "DAY_TRADE"),
              swingTradePnl |-> PnlOfType(trades, "SWING")],
     chart |-> [labels |-> <<MinuteLabel(MinOf({df[i].time : i \in Indices}))>> \o
                           [k \in 1..Len(trades) |-> MinuteLabel(trades[k].close_time)],
                data |-> <<Zero>> \o [k \in 1..Len(trades) |-> trades[k].cumulative_pnl]]]

\* threshold_hours is the request's form field (line 386, default 24)
Classify ==
    /\ pc = "classify"
    /\ \E threshold_hours \in 0..MaxThreshold :
          /\ threshold_seconds' = threshold_hours * SecondsPerHour
          /\ response' = ContractResult(Classified(grouped_trades, threshold_seconds'))
    /\ pc' = "done"
    /\ UNCHANGED <<files, df, file_types, engineVars>>

(***************************************************************************)
(* analyze_spot_trades, lines 73 to 182.                                   *)
(***************************************************************************)
\* trades_df and fees_df, lines 80 and 81
trades_df == {i \in Indices : df[i].type = "trade"}

fees_df == {i \in Indices : df[i].type = "tradingFee"}

\* buys and sells, lines 84 and 85
buys == {i \in trades_df : df[i].qty > 0}

sells == {i \in trades_df : df[i].qty < 0}

\* row['Amount'] of a row of all_trades: sells['Amount'] was replaced by its
\* absolute value at line 86, before all_trades was built at line 95
AllTradesAmount(i) == IF i \in sells THEN Abs(df[i].qty) ELSE df[i].qty

\* is_buy = row['Amount'] > 0, line 106, on the row of all_trades
IsBuy(i) == AllTradesAmount(i) > 0

\* a USDT row of any time taken as the quote leg
UsdtTradeAnyTime(time) == {u \in trades_df : df[u].sym = "USDT"}

\* usdt_trade, lines 110 and 116
UsdtTrade(time) == {u \in trades_df : df[u].time = time /\ df[u].sym = "USDT"}

\* total_fees, line 89, summed at line 149
TotalFeesPaid ==
    ISum([k \in 1..Len(SymOrder) |->
             Abs(SumOver({i \in fees_df : df[i].sym = SymOrder[k]}, "qty"))])

SpotPrepare ==
    /\ pc = "spot"
    /\ todo' = buys \cup sells
    /\ pc' = "spot_rows"
    /\ UNCHANGED <<files, df, file_types, threshold_seconds, response, groups, cur,
                   open_positions, inventory, realized_pnl, classified_trades, matches,
                   closes, grouped_trades>>

\* the queue after the matched lot is decremented, lines 138 to 142
SpotAfterMatch(queue, matched_qty) ==
    LET left == queue[1].qty - matched_qty
    IN  IF Exhausted(left) THEN Tail(queue)
        ELSE <<[queue[1] EXCEPT !.qty = left]>> \o Tail(queue)

\* the while loop of one sell row i, lines 121 to 142
RECURSIVE SellLoop(_, _, _, _, _, _)
SellLoop(i, sell_price, qty_to_sell, queue, fills, log) ==
    IF qty_to_sell > 0 /\ queue # <<>> /\ Len(log) < MaxIter
    THEN LET buy_lot == queue[1]
             matched_qty == MatchedQty(qty_to_sell, buy_lot.qty)
             pnl == RMul(RSub(sell_price, buy_lot.price), FromInt(matched_qty))
             fill == [coin |-> df[i].sym,
                      pnl |-> pnl,
                      quantity |-> matched_qty,
                      buy_price |-> buy_lot.price,
                      sell_price |-> sell_price,
                      buy_time |-> buy_lot.time,
                      sell_time |-> df[i].time]
             m == [close |-> i,
                   lot |-> buy_lot.idx,
                   lot_qty |-> buy_lot.qty,
                   qty_to_close |-> qty_to_sell,
                   queue |-> [k \in 1..Len(queue) |-> queue[k].idx],
                   matched_qty |-> matched_qty,
                   close_pnl_part |-> pnl,
                   close_fee_part |-> Zero,
                   open_fee_part |-> Zero,
                   funding_part |-> Zero]
         IN  SellLoop(i, sell_price, qty_to_sell - matched_qty,
                      SpotAfterMatch(queue, matched_qty), Append(fills, fill), Append(log, m))
    ELSE [queue |-> queue, fills |-> fills, log |-> log, rem |-> qty_to_sell,
          cut |-> qty_to_sell > 0 /\ queue # <<>>]

\* what one row i does given the quote row u, lines 108 to 142
SpotStep(i, u) ==
    LET coin == df[i].sym
        amount == AllTradesAmount(i)
    IN  IF IsBuy(i)
        THEN [queue |-> Append(inventory[coin],
                               [qty |-> amount,
                                price |-> Quotient(Abs(df[u].qty), amount),
                                time |-> df[i].time,
                                idx |-> i]),
              fills |-> <<>>, log |-> <<>>, rem |-> 0, cut |-> FALSE]
        ELSE SellLoop(i, Quotient(df[u].qty, amount), amount, inventory[coin], <<>>, <<>>)

\* history: the queue holds no lot that a row of buys opened
NoBoughtLot(queue) == \A k \in 1..Len(queue) : queue[k].idx \notin buys

\* one iteration of for _, row in all_trades.iterrows(), lines 97 to 142;
\* iloc[0] is the first quote row of the unstably sorted frame: any of them
SpotProcessRow ==
    /\ pc = "spot_rows"
    /\ \E i \in NextRows(todo) :
          /\ todo' = todo \ {i}
          /\ \/ /\ UsdtTrade(df[i].time) = {}
                /\ UNCHANGED <<inventory, realized_pnl, matches>>
                /\ closes' = IF i \in sells
                             THEN Append(closes, [row |-> i, sym |-> df[i].sym,
                                                  qty |-> Abs(df[i].qty), matched |-> 0,
                                                  fills |-> 0, quoted |-> FALSE,
                                                  emptied |-> NoBoughtLot(inventory[df[i].sym]),
                                                  queued |-> Len(inventory[df[i].sym]),
                                                  cut |-> FALSE])
                             ELSE closes
             \/ \E u \in UsdtTrade(df[i].time) :
                   LET r == SpotStep(i, u)
                   IN  /\ inventory' = [inventory EXCEPT ![df[i].sym] = r.queue]
                       /\ realized_pnl' = realized_pnl \o r.fills
                       /\ matches' = matches \o r.log
                       /\ closes' =
                            IF i \in sells
                            THEN Append(closes,
                                        [row |-> i, sym |-> df[i].sym,
                                         qty |-> Abs(df[i].qty),
                                         matched |-> ISum([k \in 1..Len(r.log) |->
                                                              r.log[k].matched_qty]),
                                         fills |-> Len(r.fills), quoted |-> TRUE,
                                         emptied |-> NoBoughtLot(r.queue),
                                         queued |-> Len(inventory[df[i].sym]),
                                         cut |-> r.cut])
                            ELSE closes
    /\ UNCHANGED <<files, df, file_types, threshold_seconds, response, groups, cur,
                   open_positions, classified_trades, grouped_trades, pc>>

\* the sum of pnl over the first k Fills
RECURSIVE SpotPrefix(_, _)
SpotPrefix(fills, k) ==
    IF k = 0 THEN Zero ELSE RAdd(SpotPrefix(fills, k - 1), fills[k].pnl)

SpotResult(fills) ==
    [status |-> 200,
     error |-> "",
     trades |-> [k \in 1..Len(fills) |->
                    [id |-> k,
                     contract |-> fills[k].coin,
                     pnl |-> fills[k].pnl,
                     open_time |-> fills[k].buy_time,
                     close_time |-> fills[k].sell_time,
                     quantity |-> fills[k].quantity,
                     buy_price |-> fills[k].buy_price,
                     sell_price |-> fills[k].sell_price]],
     kpi |-> [totalPnl |-> RSub(SpotPrefix(fills, Len(fills)), FromInt(TotalFeesPaid)),
              tradeCount |-> Len(fills),
              totalFees |-> TotalFeesPaid],
     chart |-> [labels |-> <<MinuteLabel(MinOf({fills[k].buy_time : k \in 1..Len(fills)}))>> \o
                           [k \in 1..Len(fills) |-> MinuteLabel(fills[k].sell_time)],
                data |-> <<Zero>> \o [k \in 1..Len(fills) |-> SpotPrefix(fills, k)]]]

\* lines 144 to 182
SpotFinish ==
    /\ pc = "spot_rows"
    /\ todo = {}
    /\ IF realized_pnl = <<>>
       THEN response' = Failure(500, "No realized PnL from spot trades could be calculated.")
       ELSE response' = SpotResult(realized_pnl)
    /\ pc' = "done"
    /\ UNCHANGED <<files, df, file_types, threshold_seconds, engineVars>>

(***************************************************************************)
(* The request.                                                            *)
(***************************************************************************)
Next ==
    \/ AnalyzeUploadedFiles
    \/ ContractPrepare
    \/ StartGroup
    \/ ProcessRow
    \/ Aggregate
    \/ Classify
    \/ SpotPrepare
    \/ SpotProcessRow
    \/ SpotFinish

\* a request with a batch of any family
Spec == Init /\ [][Next]_vars

NextContract ==
    \/ AnalyzeUploadedFiles
    \/ ContractPrepare
    \/ StartGroup
    \/ ProcessRow
    \/ Aggregate
    \/ Classify

NextSpot ==
    \/ AnalyzeUploadedFiles
    \/ SpotPrepare
    \/ SpotProcessRow
    \/ SpotFinish

\* a request with one contract file: one contract with quantities of either
\* sign and settlements (Deep), one contract with short batches of positive
\* quantities (Mid), one contract with settlements before, between and after
\* its trades (Fund), one contract with rows of either sign at one time
\* (Signed), two contracts with unit quantities (Wide)
SpecDeep == InitWith(DeepBatches(MaxRows)) /\ [][NextContract]_vars

SpecMid == InitWith(MidBatches(MaxRows - 1)) /\ [][NextContract]_vars

SpecSigned == InitWith(SignedBatches(MaxRows - 1)) /\ [][NextContract]_vars

\* the request is served by one thread, which runs the next step for as long
\* as the request is not done (weak fairness of the steps, a step being
\* possible exactly where StepDue holds)
FairSpecSigned == SpecSigned /\ ([]<><<TRUE>>_vars \/ <>[](pc = "done"))

SpecFund == InitWith(FundBatches(MaxRows)) /\ [][NextContract]_vars

SpecWide == InitWith(WideBatches(MaxRows)) /\ [][NextContract]_vars

\* a request with one spot file
SpecSpot == InitWith(SpotBatches(MaxRows)) /\ [][NextSpot]_vars

\* a request with one spot file of a row less
SpecSpotShort == InitWith(SpotBatches(MaxRows - 1)) /\ [][NextSpot]_vars

\* a request with up to MaxFiles files of any signature
SpecMulti == InitWith(MultiBatches(MaxFiles)) /\ [][Next]_vars

(***************************************************************************)
(* Properties.                                                             *)
(***************************************************************************)
MatchIndices == 1..Len(matches)

\* the spot batch of the scenario: coin X bought for USDT at one time and
\* the same quantity sold for more USDT at a later time
BuyThenSell(b, bq, s, sq) ==
    /\ file_types = {"spot"}
    /\ Len(df) = 4
    /\ {b, bq, s, sq} = Indices
    /\ df[b].sym = "X" /\ df[b].type = "trade" /\ df[b].qty > 0
    /\ df[bq].sym = "USDT" /\ df[bq].type = "trade" /\ df[bq].qty < 0
    /\ df[bq].time = df[b].time
    /\ df[s].sym = "X" /\ df[s].type = "trade" /\ df[s].qty = -df[b].qty
    /\ df[sq].sym = "USDT" /\ df[sq].type = "trade" /\ df[sq].qty > 0
    /\ df[sq].time = df[s].time
    /\ df[s].time > df[b].time
    /\ df[sq].qty > -df[bq].qty

\* C1: once a spot batch that buys coin X and later sells the same quantity
\* of it, each leg with its USDT row, is analysed, there is exactly one Fill
\* for X, and its pnl is (sell price - buy price) x quantity, which is the
\* USDT received less the USDT spent.
C1_SellLegRealizesPnl ==
    \A b, bq, s, sq \in Indices :
        (pc = "done" /\ BuyThenSell(b, bq, s, sq)) =>
            LET x == SelectSeq(realized_pnl, LAMBDA f : f.coin = "X")
            IN  /\ Len(x) = 1
                /\ x[1].quantity = df[b].qty
                /\ x[1].pnl = FromInt(df[sq].qty + df[bq].qty)

\* C2: at every match the lot consumed was opened no later than any lot
\* that was in the symbol's queue at that moment.
C2_FifoOrder ==
    \A k \in MatchIndices :
        \A j \in 1..Len(matches[k].queue) :
            df[matches[k].lot].time <= df[matches[k].queue[j]].time

\* a match that took the earlier of two lots opened at different times
C2_Witness ==
    \E k \in MatchIndices :
        \E j \in 1..Len(matches[k].queue) :
            df[matches[k].lot].time < df[matches[k].queue[j]].time

\* C3: no match takes more than the close still needs or the lot still
\* holds, and the matches of one close or sell record add up to at most its
\* quantity, and to exactly its quantity unless the queue ran empty.  (A
\* USDT row is the quote leg of another row, not a sell record; a sell with
\* no quote leg is skipped.)
C3_QuantityConservation ==
    /\ \A k \in MatchIndices :
          matches[k].matched_qty <= Min(matches[k].qty_to_close, matches[k].lot_qty)
    /\ \A k \in 1..Len(closes) :
          (closes[k].quoted /\ closes[k].sym # "USDT") =>
              /\ closes[k].matched <= closes[k].qty
              /\ closes[k].matched = closes[k].qty \/ closes[k].emptied

\* the matches against the lot that row o opened, oldest first
AgainstLot(o) == SelectSeq(matches, LAMBDA m : m.lot = o)

\* the one lot of a contract batch with a single OPEN row o, closed in full
\* by matches of positive quantity
OneLotClosed(o) ==
    /\ pc = "done"
    /\ file_types = {"contract"}
    /\ {i \in trade_actions_df : df[i].action = "OPEN"} = {o}
    /\ df[o].qty > 0
    /\ AgainstLot(o) # <<>>
    /\ \A k \in MatchIndices : matches[k].matched_qty > 0
    /\ ISum([k \in 1..Len(AgainstLot(o)) |-> AgainstLot(o)[k].matched_qty]) = df[o].qty

\* the funding settled while the lot of row o was open: after its open time
\* and up to the time of the last close matched against it
WindowFunding(o) ==
    LET last == CHOOSE t \in {df[m.close].time : m \in Range(AgainstLot(o))} :
                    \A m \in Range(AgainstLot(o)) : df[m.close].time <= t
    IN  SumOver({i \in funding_df : /\ df[i].sym = df[o].sym
                                    /\ df[i].time > df[o].time
                                    /\ df[i].time <= last}, "change")

\* C4: when a contract has a single lot and the lot is closed in full, by
\* one CLOSE or by several, the funding parts of the matches against the lot
\* add up to all the funding settled while the lot was open.
C4_FundingConservation ==
    \A o \in Indices :
        OneLotClosed(o) =>
            RSum([k \in 1..Len(AgainstLot(o)) |-> AgainstLot(o)[k].funding_part])
                = FromInt(WindowFunding(o))

\* C5: every Fill merged into an AggregatedTrade has the contract that the
\* AggregatedTrade reports.
C5_GroupHasOneContract ==
    \A g \in 1..Len(grouped_trades) :
        \A i \in grouped_trades[g].members :
            classified_trades[i].contract = grouped_trades[g].contract

FillIndices == 1..Len(classified_trades)

Aggregated == pc \in {"classify", "done"} /\ classified_trades # <<>>

\* C6: once the Fills are aggregated, two Fills are members of the same
\* AggregatedTrade exactly when their close times are equal, every Fill is a
\* member of one AggregatedTrade, and there are as many AggregatedTrades as
\* distinct close times.
C6_GroupedByCloseTime ==
    Aggregated =>
        /\ \A i, j \in FillIndices :
              (classified_trades[i].close_time = classified_trades[j].close_time)
                  <=> (\E g \in 1..Len(grouped_trades) :
                          {i, j} \subseteq grouped_trades[g].members)
        /\ \A i \in FillIndices :
              Cardinality({g \in 1..Len(grouped_trades) :
                              i \in grouped_trades[g].members}) = 1
        /\ Len(grouped_trades) =
              Cardinality({classified_trades[i].close_time : i \in FillIndices})

\* two Fills opened at different times and closed at one time, merged into
\* one AggregatedTrade
C6_Witness ==
    /\ Aggregated
    /\ \E g \in 1..Len(grouped_trades) :
          \E i, j \in grouped_trades[g].members :
              classified_trades[i].open_time # classified_trades[j].open_time

Succeeded == pc = "done" /\ response.status = 200

\* C7: every trade of a contract result is SWING if its holding period is
\* more than threshold_hours x 3600 seconds and DAY_TRADE otherwise, for the
\* threshold_hours of the request.
C7_ClassificationBoundary ==
    (Succeeded /\ file_types = {"contract"}) =>
        /\ \E h \in 0..MaxThreshold : threshold_seconds = h * 3600
        /\ \A k \in 1..Len(response.trades) :
              LET t == response.trades[k]
              IN  /\ t.type \in {"SWING", "DAY_TRADE"}
                  /\ t.type = "SWING" <=>
                         t.holding_period_seconds[1] >
                             threshold_seconds * t.holding_period_seconds[2]

\* a result with a threshold of one hour or more, a trade held for exactly
\* the threshold and a trade held one second longer
C7_Witness ==
    /\ Succeeded
    /\ file_types = {"contract"}
    /\ threshold_seconds > 0
    /\ \E k \in 1..Len(response.trades) :
          /\ response.trades[k].holding_period_seconds = FromInt(threshold_seconds)
          /\ response.trades[k].type = "DAY_TRADE"
    /\ \E k \in 1..Len(response.trades) :
          /\ response.trades[k].holding_period_seconds = FromInt(threshold_seconds + 1)
          /\ response.trades[k].type = "SWING"

\* a file in which read_csv finds the spot columns, or the contract columns
HasSpotFile ==
    \E i \in 1..Len(files) : files[i].sig = "spot" /\ files[i].parse # "read_error"

HasContractFile ==
    \E i \in 1..Len(files) :
        files[i].sig \in {"contract", "legacy"} /\ files[i].parse # "read_error"

\* neither engine has run and nothing was produced
NoEngineRan ==
    /\ pc \in {"request", "done"}
    /\ classified_trades = <<>>
    /\ realized_pnl = <<>>
    /\ grouped_trades = <<>>
    /\ response.trades = <<>>

\* C8, as claimed: a batch with a spot file and a contract file ends with
\* the mixed-instrument error, with neither engine run and no trades.
C8_MixedBatchRejected ==
    (HasSpotFile /\ HasContractFile) =>
        /\ NoEngineRan
        /\ pc = "done" => response.error = "mixed_files"

\* C8, amended: such a batch ends with a 400 error, with neither engine run
\* and no trades; the error is the mixed-instrument error when the files
\* loaded hold at least one row, and the no-valid-data error when they hold
\* none.
C8_MixedBatchRejectedIfRows ==
    (HasSpotFile /\ HasContractFile) =>
        /\ NoEngineRan
        /\ pc = "done" =>
              /\ response.status = 400
              /\ response.error =
                    IF df # <<>> THEN "mixed_files" ELSE "No valid data found in files."

\* a batch with a spot file and a contract file rejected as mixed
C8_Witness ==
    /\ HasSpotFile
    /\ HasContractFile
    /\ pc = "done"
    /\ response.error = "mixed_files"

\* C9, as claimed: no match is made against a lot whose remaining quantity
\* is at or below 1e-9.
C9_NoMatchAtOrBelowEpsilon ==
    \A k \in MatchIndices : matches[k].lot_qty > Epsilon

\* C9, amended: a lot that a match leaves with at most 1e-9 is matched
\* never again and is not in the queue; a match against a lot holding at
\* most 1e-9 is the first match of a lot whose opening row had that quantity.
C9_ExhaustedLotNotMatchedAgain ==
    /\ \A k, l \in MatchIndices :
          (k < l /\ matches[k].lot = matches[l].lot) =>
              matches[k].lot_qty - matches[k].matched_qty > Epsilon
    /\ \A k \in MatchIndices :
          matches[k].lot_qty <= Epsilon =>
              /\ matches[k].lot_qty = df[matches[k].lot].qty
              /\ \A l \in 1..(k - 1) : matches[l].lot # matches[k].lot
    /\ \A j \in 1..Len(open_positions) :
          open_positions[j].qty <= Epsilon =>
              /\ open_positions[j].qty = df[open_positions[j].idx].qty
              /\ \A k \in MatchIndices : matches[k].lot # open_positions[j].idx

\* a match left its lot with exactly 1e-9, the lot left the queue, and a
\* later CLOSE of the contract was processed
C9_Witness ==
    \E k \in MatchIndices :
        /\ matches[k].lot_qty - matches[k].matched_qty = Epsilon
        /\ \A j \in 1..Len(open_positions) : open_positions[j].idx # matches[k].lot
        /\ \E c \in 1..Len(closes) : closes[c].row # matches[k].close /\ c > 1

EngineRan(tag) == pc = "done" /\ df # <<>> /\ file_types = {tag}

\* C10: a success payload holds at least one trade; a contract analysis that
\* made no Fill ends with the no-classifiable-trades error and a spot
\* analysis that made no Fill with the no-realized-PnL error.
C10_NoEmptySuccess ==
    /\ Succeeded => Len(response.trades) >= 1
    /\ (EngineRan("contract") /\ classified_trades = <<>>) =>
          /\ response.status = 500
          /\ response.error = "No trades could be classified from the uploaded files."
    /\ (EngineRan("spot") /\ realized_pnl = <<>>) =>
          /\ response.status = 500
          /\ response.error = "No realized PnL from spot trades could be calculated."

\* a contract analysis of trade rows that made no Fill
C10_Witness ==
    /\ EngineRan("contract")
    /\ trade_actions_df # {}
    /\ classified_trades = <<>>
    /\ response.status = 500

\* the matches after match k that close the same contract
LaterMatches(k) ==
    {l \in MatchIndices : l > k /\ df[matches[l].close].sym = df[matches[k].close].sym}

\* a batch of one OPEN row o and two CLOSE rows c1 and c2 of one contract,
\* processed in that order, that close what o opened and no more, the first
\* leaving more than 1e-9
OpenThenTwoCloses(o, c1, c2) ==
    /\ pc = "done"
    /\ file_types = {"contract"}
    /\ Len(df) = 3
    /\ {o, c1, c2} = Indices
    /\ funding_df = {}
    /\ df[o].action = "OPEN" /\ df[c1].action = "CLOSE" /\ df[c2].action = "CLOSE"
    /\ df[o].time < df[c1].time
    /\ Len(closes) = 2 /\ closes[1].row = c1 /\ closes[2].row = c2
    /\ df[c1].qty > 0
    /\ df[c2].qty > Epsilon
    /\ df[c1].qty + df[c2].qty = df[o].qty

\* C11: a match that leaves its lot with more than 1e-9 leaves it at the
\* head of the contract's queue with the matched quantity taken off, and the
\* next match of the contract is against that lot; one OPEN followed by two
\* CLOSEs that together close it, with no settlement, gives two Fills
\* against the one lot, without funding, whose quantities add up to the
\* quantity opened.
C11_PartialLotStaysAtHead ==
    /\ \A k \in MatchIndices :
          LET m == matches[k]
              left == m.lot_qty - m.matched_qty
          IN  left > Epsilon =>
                  /\ \A l \in LaterMatches(k) :
                        (\A j \in LaterMatches(k) : l <= j) =>
                            /\ matches[l].lot = m.lot
                            /\ matches[l].lot_qty = left
                  /\ (LaterMatches(k) = {} /\ cur = df[m.close].sym) =>
                        /\ open_positions # <<>>
                        /\ open_positions[1] = [idx |-> m.lot, qty |-> left]
    /\ \A o, c1, c2 \in Indices :
          OpenThenTwoCloses(o, c1, c2) =>
              /\ Len(classified_trades) = 2
              /\ Len(matches) = 2
              /\ matches[1].lot = o /\ matches[2].lot = o
              /\ matches[1].close = c1 /\ matches[2].close = c2
              /\ classified_trades[1].funding_fee = Zero
              /\ classified_trades[2].funding_fee = Zero
              /\ classified_trades[1].quantity + classified_trades[2].quantity = df[o].qty

\* one OPEN closed by two CLOSEs, the first leaving the lot at the head
C11_Witness ==
    \E o, c1, c2 \in Indices :
        /\ OpenThenTwoCloses(o, c1, c2)
        /\ matches[1].lot_qty - matches[1].matched_qty > Epsilon
        /\ matches[2].lot_qty = matches[1].lot_qty - matches[1].matched_qty

\* the SETTLEMENT rows of the contract of match m after the open time of its
\* lot and up to the time of its CLOSE, and the OPEN rows of the contract
\* from the one time to the other
SettledDuring(m) ==
    {i \in Indices : /\ df[i].type = "SETTLEMENT"
                     /\ df[i].sym = df[m.close].sym
                     /\ df[i].time > df[m.lot].time
                     /\ df[i].time <= df[m.close].time}

OpenedDuring(m) ==
    {i \in Indices : /\ df[i].type = "TRADE" /\ df[i].action = "OPEN"
                     /\ df[i].sym = df[m.close].sym
                     /\ df[i].time >= df[m.lot].time
                     /\ df[i].time <= df[m.close].time}

\* a batch of one OPEN row o, one SETTLEMENT row f and one CLOSE row c of
\* the quantity opened, the settlement strictly between the two
OpenSettleClose(o, f, c) ==
    /\ pc = "done"
    /\ file_types = {"contract"}
    /\ Len(df) = 3
    /\ {o, f, c} = Indices
    /\ df[o].action = "OPEN" /\ df[c].action = "CLOSE" /\ df[f].type = "SETTLEMENT"
    /\ df[o].qty > 0 /\ df[c].qty = df[o].qty
    /\ df[o].time < df[f].time /\ df[f].time < df[c].time

FillOfMatch(k) == classified_trades[k]

\* C13: the open-fee part of every match is the fee of the OPEN row times
\* the quotient of the matched quantity by what the lot held just before the
\* match (0 when that is not positive); the pnl of its Fill is the sum of
\* the close-pnl, open-fee, close-fee and funding parts and its trade fees
\* the sum of the two fee parts.
C13_OpenFeeAndNetPnl ==
    /\ Len(classified_trades) = Len(matches)
    /\ \A k \in MatchIndices :
          LET m == matches[k]
          IN  /\ m.open_fee_part =
                    RMul(FromInt(df[m.lot].fee),
                         IF m.lot_qty > 0 THEN Quotient(m.matched_qty, m.lot_qty) ELSE Zero)
              /\ FillOfMatch(k).pnl =
                    RAdd(RAdd(m.close_pnl_part, m.open_fee_part),
                         RAdd(m.close_fee_part, m.funding_part))
              /\ FillOfMatch(k).trade_fees = RAdd(m.open_fee_part, m.close_fee_part)
              /\ FillOfMatch(k).quantity = m.matched_qty

\* a match that takes all that is left of a lot an earlier match took from
C13_Witness ==
    \E k \in MatchIndices :
        /\ matches[k].lot_qty < df[matches[k].lot].qty
        /\ matches[k].matched_qty = matches[k].lot_qty
        /\ matches[k].open_fee_part = FromInt(df[matches[k].lot].fee)
        /\ df[matches[k].lot].fee # 0

ContractSucceeded == Succeeded /\ file_types = {"contract"}

TradeIndices == 1..Len(response.trades)

\* C14: in a contract result the trades are in ascending order of close
\* time, the cumulative PnL and the cumulative fees of the k-th trade are the
\* sums of the pnl and of the trade fees of the first k trades, and the
\* chart has one label and one data point more than there are trades, the
\* first data point 0 and the next ones the cumulative PnL of the trades.
\* (The numbers are the Decimal values the payload converts with float().)
C14_RunningTotalsAndChart ==
    ContractSucceeded =>
        LET t == response.trades
            c == response.chart
        IN  /\ \A k \in TradeIndices : k > 1 => t[k - 1].close_time <= t[k].close_time
            /\ \A k \in TradeIndices :
                  /\ t[k].cumulative_pnl = RSum([j \in 1..k |-> t[j].pnl])
                  /\ t[k].cumulative_fees = RSum([j \in 1..k |-> t[j].trade_fees])
            /\ Len(c.labels) = Len(t) + 1
            /\ Len(c.data) = Len(t) + 1
            /\ c.data[1] = Zero
            /\ \A k \in TradeIndices : c.data[k + 1] = t[k].cumulative_pnl

\* a contract result of two trades, the running total of the second being
\* neither its own pnl nor that of the first
C14_Witness ==
    /\ ContractSucceeded
    /\ Len(response.trades) >= 2
    /\ response.trades[1].close_time < response.trades[2].close_time
    /\ response.trades[2].cumulative_pnl # response.trades[2].pnl
    /\ response.trades[2].cumulative_pnl # response.trades[1].pnl

\* C15: in a successful contract result totalPnl is the sum of the pnl of
\* all Fills, dayTradePnl and swingTradePnl add up to totalPnl, every trade
\* is a DAY_TRADE or a SWING, tradeCount is the number of AggregatedTrades,
\* and the last cumulative PnL is totalPnl.  (The numbers are the Decimal
\* values the payload converts with float().)
C15_KpiConsistency ==
    ContractSucceeded =>
        LET t == response.trades
            kpi == response.kpi
        IN  /\ kpi.totalPnl = RSum([i \in FillIndices |-> classified_trades[i].pnl])
            /\ RAdd(kpi.dayTradePnl, kpi.swingTradePnl) = kpi.totalPnl
            /\ \A k \in TradeIndices : t[k].type \in {"DAY_TRADE", "SWING"}
            /\ kpi.dayTradePnl =
                  RSum([k \in TradeIndices |->
                           IF t[k].type = "DAY_TRADE" THEN t[k].pnl ELSE Zero])
            /\ kpi.tradeCount = Len(grouped_trades)
            /\ kpi.tradeCount = Len(t)
            /\ t[Len(t)].cumulative_pnl = kpi.totalPnl

\* a result with a DAY_TRADE and a SWING, each with a pnl other than 0
C15_Witness ==
    /\ ContractSucceeded
    /\ response.kpi.dayTradePnl # Zero
    /\ response.kpi.swingTradePnl # Zero
    /\ response.kpi.totalPnl # Zero

\* row i of a spot batch has no trade row of USDT at its own time
NoQuoteLeg(i) ==
    ~ \E u \in Indices :
          df[u].type = "trade" /\ df[u].sym = "USDT" /\ df[u].time = df[i].time

\* C16: the step of the spot engine that processes a buy or sell leg with
\* no USDT trade row at its time changes no queue, adds no Fill and no
\* match, and sets no response.
C16_MissingQuoteLegSkipped ==
    [][\A i \in todo \ todo' :
          (pc = "spot_rows" /\ NoQuoteLeg(i)) =>
              /\ inventory' = inventory
              /\ realized_pnl' = realized_pnl
              /\ matches' = matches
              /\ response' = response
              /\ pc' = pc]_vars

\* a leg with no quote leg was passed over, the lot that a priced leg of
\* the same coin opened being the only one in the queue
C16_Witness ==
    /\ pc \in {"spot_rows", "done"}
    /\ \E i \in buys \cup sells :
          /\ i \notin todo
          /\ df[i].sym = "X"
          /\ NoQuoteLeg(i)
          /\ Len(inventory["X"]) = 1
          /\ inventory["X"][1].idx # i

\* the guard of the step that is due
StepDue ==
    \/ pc \in {"request", "contract", "groups", "classify", "spot"}
    \/ pc = "rows" /\ todo # {}
    \/ pc = "spot_rows"

\* every iteration drops the head lot or brings what is left to close to 0,
\* no loop is left running, a loop makes no more iterations than the queue
\* held lots, a request that is not done has a step due, and a finished
\* request has a whole result or an error
LoopsEndAndResultWhole ==
    /\ pc # "done" => StepDue
    /\ \A k \in MatchIndices :
          \/ matches[k].qty_to_close - matches[k].matched_qty = 0
          \/ matches[k].lot_qty - matches[k].matched_qty <= Epsilon
    /\ \A k \in MatchIndices :
          (k > 1 /\ matches[k - 1].close = matches[k].close) =>
              /\ matches[k].queue = Tail(matches[k - 1].queue)
              /\ matches[k - 1].qty_to_close - matches[k - 1].matched_qty > 0
    /\ \A c \in 1..Len(closes) :
          /\ ~ closes[c].cut
          /\ closes[c].fills <= closes[c].queued
    /\ pc = "done" =>
          /\ todo = {}
          /\ response.status \in {200, 400, 500}
          /\ response.status = 200 =>
                /\ response.error = ""
                /\ groups = <<>>
                /\ Len(response.trades) = Len(grouped_trades)
                /\ \A i \in FillIndices :
                      \E g \in 1..Len(grouped_trades) : i \in grouped_trades[g].members
                /\ Len(response.chart.data) = Len(response.trades) + 1
          /\ response.status # 200 =>
                /\ response.error # ""
                /\ response.trades = <<>>
                /\ response.kpi = <<>>
                /\ response.chart = <<>>

\* C17: the matching loop of every CLOSE ends, each iteration dropping the
\* head lot or bringing what is left to close to 0, whatever the sign of the
\* quantities; every request comes to its end, and it ends with a whole
\* result or with an error.
C17_LoopsTerminate == [] LoopsEndAndResultWhole /\ <>(pc = "done")

\* a finished request in which one CLOSE was matched against two lots, one
\* of them opened with a quantity of 0 or less
C17_Witness ==
    /\ pc = "done"
    /\ \E c \in 1..Len(closes) : closes[c].fills >= 2
    /\ \E k \in MatchIndices : matches[k].lot_qty <= 0


\* the lot of OPEN row o has been consumed in full: the matches against it,
\* each of positive quantity, add up to the quantity of the row
FullyConsumed(o) ==
    /\ df[o].action = "OPEN"
    /\ df[o].qty > 0
    /\ AgainstLot(o) # <<>>
    /\ \A k \in 1..Len(AgainstLot(o)) : AgainstLot(o)[k].matched_qty > 0
    /\ ISum([k \in 1..Len(AgainstLot(o)) |-> AgainstLot(o)[k].matched_qty]) = df[o].qty

\* C18: when a lot has been consumed in full, by one CLOSE or by several,
\* the open-fee parts of the matches against it add up to the fee of the
\* OPEN row that made the lot.
C18_OpenFeeConservation ==
    \A o \in Indices :
        (file_types = {"contract"} /\ FullyConsumed(o)) =>
            RSum([k \in 1..Len(AgainstLot(o)) |-> AgainstLot(o)[k].open_fee_part])
                = FromInt(df[o].fee)


\* the matches of the CLOSE row i, in the order they were made
MatchesOf(i) == SelectSeq(matches, LAMBDA m : m.close = i)

RAbs(a) == <<Abs(a[1]), a[2]>>

\* a <= b for fractions with positive denominators
RLeq(a, b) == a[1] * b[2] <= b[1] * a[2]

\* the close-side parts of CLOSE row i, summed over its matches
ClosePnlSum(i) == RSum([k \in 1..Len(MatchesOf(i)) |-> MatchesOf(i)[k].close_pnl_part])

CloseFeeSum(i) == RSum([k \in 1..Len(MatchesOf(i)) |-> MatchesOf(i)[k].close_fee_part])

\* the matched fraction of the value v of a close record c, with no rounding
MatchedShare(c, v) == Frac(v * c.matched, c.qty)

\* the CLOSE records of positive quantity of a contract batch
PositiveCloses ==
    {k \in 1..Len(closes) : file_types = {"contract"} /\ closes[k].qty > 0}

\* every close ratio of close record c is a decimal of at most Digits places
RatiosExact(c) ==
    \A k \in 1..Len(MatchesOf(c.row)) :
        (MatchesOf(c.row)[k].matched_qty * Pow10(Digits)) % c.qty = 0

FillsHoldForward ==
    /\ \A k \in FillIndices :
          /\ classified_trades[k].open_time <= classified_trades[k].close_time
          /\ classified_trades[k].holding_period_seconds >= 0
    /\ \A k \in MatchIndices : df[matches[k].lot].time <= df[matches[k].close].time

\* a CLOSE is matched only against lots that were in the queue when it was
\* processed, and what it could not match is carried nowhere: a lot in the
\* queue holds the quantity of its OPEN row less what was matched against it
RemainderDropped ==
    /\ \A k \in MatchIndices : matches[k].lot \notin todo
    /\ \A k \in 1..Len(closes) :
          closes[k].matched < closes[k].qty => closes[k].emptied
    /\ \A j \in 1..Len(open_positions) :
          LET o == open_positions[j].idx
          IN  open_positions[j].qty =
                 df[o].qty - ISum([k \in 1..Len(AgainstLot(o)) |-> AgainstLot(o)[k].matched_qty])

\* no lot in the queue has a negative remaining quantity
NoNegativeLot ==
    \A j \in 1..Len(open_positions) : open_positions[j].qty >= 0

\* C20: every Fill has its open time at or before its close time; a CLOSE
\* larger than the queue drops its remainder and is matched against no lot
\* of a later record; and no lot in the queue has a negative remaining
\* quantity.
C20_NoNegativeInventory ==
    file_types = {"contract"} =>
        /\ FillsHoldForward
        /\ RemainderDropped
        /\ NoNegativeLot

============================================================================
